---- MODULE Spec2Model ----
\* Model of the coding agent with reflection (src/agent.py) and of its
\* metrics collector (src/metrics/collector.py).
\*
\* Text is a sequence of one-character strings, so that str.startswith,
\* str.lower, substring search, concatenation and Python truthiness are
\* computed on characters.  Python None is the one-element sequence None,
\* whose element is not a character.
EXTENDS Integers, Sequences, FiniteSets, TLC

VARIABLES
    metrics,              \* self.metrics is a MetricsCollector (TRUE) or None (FALSE)
    current_interaction,  \* MetricsCollector.current_interaction: NoInteraction or <<record>>
    interactions,         \* committed rows of table interactions, in insertion order
    completions,          \* committed rows of table completions, in insertion order
    pc,                   \* position of run_agent_with_reflection
    user_query,           \* argument of run_agent_with_reflection
    initial_solution,     \* local of run_agent_with_reflection
    reflection,           \* local of run_agent_with_reflection
    improved_solution,    \* local of run_agent_with_reflection
    raised,               \* str(e) of the exception caught at agent.py:238, or NoException
    result,               \* the tuple returned by run_agent_with_reflection, <<>> before
    calls,                \* context types of the service calls made by the current run
    end_status,           \* outcome of the run's end_interaction call: "none", "ok", "failed"
    memory_snippets,      \* layers whose block gather_memory emitted for the current stage 1
    runs,                 \* number of runs started
    ops,                  \* number of direct collector calls made
    last_op,              \* the last direct collector call and what it observed
    starts,               \* number of start_interaction calls made
    last_call,            \* the last get_completion call of the run: NoCall or <<record>>
    gathered,             \* the last direct gather_memory call: NoGather or <<record>>
    logged,               \* the direct log calls made since the last start_interaction
                          \* call or end of an interaction, and the call numbers of the
                          \* log_completion calls a start_interaction call overwrote
    run_inputs            \* what the current run has read: the system prompt file and
                          \* the responses of the service, in order

vars == <<metrics, current_interaction, interactions, completions, pc, user_query,
          initial_solution, reflection, improved_solution, raised, result, calls,
          end_status, memory_snippets, runs, ops, last_op, starts, last_call, gathered,
          logged, run_inputs>>

agent_vars == <<pc, user_query, initial_solution, reflection, improved_solution,
                raised, result, calls, end_status, memory_snippets, runs, last_call,
                gathered, run_inputs>>

-----------------------------------------------------------------------------
\* Bounds of the model.

MaxRuns == 2
MaxOps == 5

-----------------------------------------------------------------------------
\* Text.

None == <<"None">>
NoException == <<"NoException">>
NoInteraction == <<>>
NoCall == <<>>
NoGather == <<>>
NoInputs == [system_prompt |-> <<>>, responses |-> <<>>]

ErrorSentinel == <<"E", "r", "r", "o", "r">>
ErrorColon == <<"E", "r", "r", "o", "r", ":", " ">>
MsgFailedInitial == <<"E", "r", "r", "o", "r", ":", " ", "F", "a", "i", "l", "e", "d", " ", "t", "o", " ", "g", "e", "n", "e", "r", "a", "t", "e", " ", "i", "n", "i", "t", "i", "a", "l", " ", "s", "o", "l", "u", "t", "i", "o", "n">>
MsgNoReflection == <<"N", "o", " ", "r", "e", "f", "l", "e", "c", "t", "i", "o", "n", " ", "a", "n", "a", "l", "y", "s", "i", "s", " ", "a", "v", "a", "i", "l", "a", "b", "l", "e">>
MsgNoImprovements == <<"N", "o", " ", "i", "m", "p", "r", "o", "v", "e", "m", "e", "n", "t", "s", " ", "m", "a", "d", "e">>
MsgReflectionFailed == <<"R", "e", "f", "l", "e", "c", "t", "i", "o", "n", " ", "f", "a", "i", "l", "e", "d", ".">>
MsgNoImproved == <<"N", "o", " ", "i", "m", "p", "r", "o", "v", "e", "d", " ", "s", "o", "l", "u", "t", "i", "o", "n", " ", "a", "v", "a", "i", "l", "a", "b", "l", "e", ".">>
MsgPromptNotFound == <<"S", "y", "s", "t", "e", "m", " ", "p", "r", "o", "m", "p", "t", " ", "f", "i", "l", "e", " ", "n", "o", "t", " ", "f", "o", "u", "n", "d">>
MsgNoStartswith == <<"'", "N", "o", "n", "e", "T", "y", "p", "e", "'", " ", "o", "b", "j", "e", "c", "t", " ", "h", "a", "s", " ", "n", "o", " ", "a", "t", "t", "r", "i", "b", "u", "t", "e", " ", "'", "s", "t", "a", "r", "t", "s", "w", "i", "t", "h", "'">>
MsgNoUsage == <<"'", "N", "o", "n", "e", "T", "y", "p", "e", "'", " ", "o", "b", "j", "e", "c", "t", " ", "h", "a", "s", " ", "n", "o", " ", "a", "t", "t", "r", "i", "b", "u", "t", "e", " ", "'", "p", "r", "o", "m", "p", "t", "_", "t", "o", "k", "e", "n", "s", "'">>

\* str.startswith
StartsWith(s, prefix) ==
    /\ Len(s) >= Len(prefix)
    /\ SubSeq(s, 1, Len(prefix)) = prefix

\* Python truthiness of an Optional[str]
Truthy(s) == s # None /\ s # <<>>

\* Python's  a or b  on Optional[str]
Or(a, b) == IF Truthy(a) THEN a ELSE b

UpperChars == <<"A", "C", "E", "G", "L", "Y">>
LowerChars == <<"a", "c", "e", "g", "l", "y">>

LowerChar(c) ==
    IF \E i \in 1..Len(UpperChars) : UpperChars[i] = c
    THEN LowerChars[CHOOSE i \in 1..Len(UpperChars) : UpperChars[i] = c]
    ELSE c

\* str.lower
Lower(s) == [i \in 1..Len(s) |-> LowerChar(s[i])]

\* sub in s
Contains(s, sub) ==
    \E i \in 0..(Len(s) - Len(sub)) : SubSeq(s, i + 1, i + Len(sub)) = sub

-----------------------------------------------------------------------------
\* Inputs: queries, files and responses of the generation service.

QuerySort == <<"s", "o", "r", "t">>
QueryLegacy == <<"L", "E", "G", "A", "C", "Y">>
Queries == {QuerySort, QueryLegacy}

TextCode == <<"c", "o", "d", "e">>
TextErrors == <<"E", "r", "r", "o", "r", "s">>
TextPrompt == <<"p">>
MsgTimeout == <<"t", "i", "m", "e", "o", "u", "t">>

\* content of prompts/system_prompt.md as load_text_file returns it
SystemPrompts == {<<>>, TextPrompt}

\* response.choices[0].message.content of a successful call
Contents == {<<>>, TextCode, TextErrors, None}

\* str(e) of a failed call
Causes == {MsgTimeout}

ServiceResponses ==
    {[ok |-> FALSE, content |-> None, usage |-> FALSE, cause |-> c] : c \in Causes}
    \cup {[ok |-> TRUE, content |-> t, usage |-> u, cause |-> <<>>] :
              t \in Contents, u \in BOOLEAN}

\* the sets of layers whose file exists with content
LayerFileChoices == {{1, 2, 3, 4}, {1, 3}}

-----------------------------------------------------------------------------
\* MetricsCollector (src/metrics/collector.py).

ThisSession == "this"
OldSession == "old"

\* the dictionary start_interaction stores (start_time is left out: the model
\* has no clock, and response_time is derived from it alone)
\* start_interaction that keeps an accumulator that is still active
start_interaction_keep ==
    IF current_interaction # NoInteraction
    THEN current_interaction
    ELSE <<[completions |-> <<>>, layer_access |-> {}]>>

start_interaction == <<[completions |-> <<>>, layer_access |-> {}]>>

\* log_completion that opens an accumulator when none is active
log_completion_autostart(ci, context_type, duration) ==
    IF ci # NoInteraction
    THEN <<[ci[1] EXCEPT !.completions =
                Append(@, [context_type |-> context_type, duration |-> duration])]>>
    ELSE <<[completions |-> <<[context_type |-> context_type, duration |-> duration]>>,
            layer_access |-> {}]>>

log_layer_access(ci, layer) ==
    IF ci # NoInteraction
    THEN <<[ci[1] EXCEPT !.layer_access = @ \cup {layer}]>>
    ELSE ci

\* duration stands for the four numbers of one observation
log_completion(ci, context_type, duration) ==
    IF ci # NoInteraction
    THEN <<[ci[1] EXCEPT !.completions =
                Append(@, [context_type |-> context_type, duration |-> duration])]>>
    ELSE ci

\* the deterministic token counter: one token per character
count_tokens(text) == Len(text)

RECURSIVE SetToList(_)
\* list(set) of small integers
SetToList(S) ==
    IF S = {} THEN <<>>
    ELSE LET m == CHOOSE x \in S : \A y \in S : x <= y
         IN <<m>> \o SetToList(S \ {m})

ListToSet(l) == {l[i] : i \in 1..Len(l)}

\* cursor.lastrowid of an INTEGER PRIMARY KEY column
lastrowid(rows) ==
    IF rows = <<>> THEN 1
    ELSE 1 + (CHOOSE m \in {rows[i].id : i \in 1..Len(rows)} :
                  \A j \in 1..Len(rows) : rows[j].id <= m)

\* a connection that keeps what was written before the exception
connection_exit_keep(committed, pending, failed) == pending

\* sqlite3's connection context manager: commit when the block ends normally,
\* roll back when it ends with an exception
connection_exit(committed, pending, failed) ==
    IF failed THEN committed ELSE pending

\* an accumulator that survives a successful end_interaction
after_end_keep(ci, failed) == ci

\* the accumulator slot after the with block: collector.py:118 runs only when
\* the block did not raise
after_end(ci, failed) == IF failed THEN ci ELSE NoInteraction

\* end_interaction on the collector state (ci, ints, comps).  fail is the number
\* of INSERT statements that succeed before the storage error; a value above the
\* number of statements means no error.  Yields the new collector state and
\* whether the call raised.
end_interaction(ci, ints, comps, prompt, solution, reflection_text, layers_accessed, fail) ==
    IF ci = NoInteraction
    THEN [current_interaction |-> ci, interactions |-> ints,
          completions |-> comps, raised |-> FALSE]
    ELSE LET acc == ci[1]
             n == Len(acc.completions)
             failed == fail <= n + 1
             written == IF failed THEN fail ELSE n + 1
             interaction_id == lastrowid(ints)
             row == [id |-> interaction_id,
                     session_id |-> ThisSession,
                     prompt |-> prompt,
                     solution |-> solution,
                     reflection |-> reflection_text,
                     total_tokens |-> count_tokens(prompt \o solution \o reflection_text),
                     layers_accessed |-> SetToList(acc.layer_access)]
             pendingInts == IF written >= 1 THEN Append(ints, row) ELSE ints
             pendingComps ==
                 comps \o [i \in 1..(IF written >= 1 THEN written - 1 ELSE 0) |->
                              [interaction_id |-> interaction_id,
                               context_type |-> acc.completions[i].context_type,
                               duration |-> acc.completions[i].duration]]
             db == connection_exit([i |-> ints, c |-> comps],
                                   [i |-> pendingInts, c |-> pendingComps], failed)
         IN [current_interaction |-> after_end(ci, failed),
             interactions |-> db.i,
             completions |-> db.c,
             raised |-> failed]

RecentLimit == 10

RECURSIVE SumTokens(_)
SumTokens(rows) ==
    IF rows = <<>> THEN 0 ELSE rows[1].total_tokens + SumTokens(Tail(rows))

\* a summary query without its WHERE clause
IsAnySession(row) == TRUE

IsThisSession(row) == row.session_id = ThisSession

\* get_summary: COUNT(*) and AVG(total_tokens) over the session's rows (AVG of
\* no row is NULL; otherwise the exact quotient sum / count), and the
\* layers_accessed of the most recent RecentLimit rows, newest first.
\* avg_response_time is left out with the clock.
get_summary(ints) ==
    LET rows == SelectSeq(ints, IsThisSession)
        k == IF Len(rows) < RecentLimit THEN Len(rows) ELSE RecentLimit
    IN [interaction_count |-> Len(rows),
        avg_tokens |-> IF rows = <<>>
                       THEN [null |-> TRUE, sum |-> 0, count |-> 0]
                       ELSE [null |-> FALSE, sum |-> SumTokens(rows), count |-> Len(rows)],
        recent_layer_patterns |-> [i \in 1..k |-> rows[Len(rows) + 1 - i].layers_accessed]]

-----------------------------------------------------------------------------
\* CodingAgent (src/agent.py).

\* keys of layer_files
layer_files == {1, 2, 3, 4}

Keywords == {<<"l", "e", "g", "a", "c", "y">>,
             <<"o", "l", "d", " ", "v", "e", "r", "s", "i", "o", "n">>,
             <<"d", "e", "p", "r", "e", "c", "a", "t", "e", "d">>,
             <<"e", "d", "g", "e", " ", "c", "a", "s", "e">>}

\* the keyword test on the query as typed, without lower()
layers_to_load_as_typed(query) ==
    IF \E keyword \in Keywords : Contains(query, keyword)
    THEN <<1, 2, 3, 4>>
    ELSE <<1, 2, 3>>

layers_to_load(query) ==
    IF \E keyword \in Keywords : Contains(Lower(query), keyword)
    THEN <<1, 2, 3, 4>>
    ELSE <<1, 2, 3>>

RECURSIVE gather_memory_log_content(_, _, _, _)
\* gather_memory that reports a layer only when its file had content
gather_memory_log_content(m, ci, layers_needed, files) ==
    IF layers_needed = <<>>
    THEN [current_interaction |-> ci, memory_content |-> <<>>]
    ELSE LET layer == Head(layers_needed)
             ci1 == IF layer \in layer_files /\ layer \in files /\ m
                    THEN log_layer_access(ci, layer)
                    ELSE ci
             block == IF layer \in layer_files /\ layer \in files
                      THEN <<layer>>
                      ELSE <<>>
             rest == gather_memory_log_content(m, ci1, Tail(layers_needed), files)
         IN [current_interaction |-> rest.current_interaction,
             memory_content |-> block \o rest.memory_content]

RECURSIVE gather_memory(_, _, _, _)
\* gather_memory over the list layers_needed; files is the set of layers whose
\* file has content.  Yields the collector's accumulator and the layers whose
\* block was emitted, in order.
gather_memory(m, ci, layers_needed, files) ==
    IF layers_needed = <<>>
    THEN [current_interaction |-> ci, memory_content |-> <<>>]
    ELSE LET layer == Head(layers_needed)
             ci1 == IF layer \in layer_files /\ m
                    THEN log_layer_access(ci, layer)
                    ELSE ci
             block == IF layer \in layer_files /\ layer \in files
                      THEN <<layer>>
                      ELSE <<>>
             rest == gather_memory(m, ci1, Tail(layers_needed), files)
         IN [current_interaction |-> rest.current_interaction,
             memory_content |-> block \o rest.memory_content]

\* get_completion that records the observation before it looks at the response
get_completion_log_first(m, ci, response, context_type) ==
    IF ~m
    THEN [ret |-> IF response.ok THEN response.content ELSE ErrorColon \o response.cause,
          current_interaction |-> ci]
    ELSE IF ~response.ok
         THEN [ret |-> ErrorColon \o response.cause,
               current_interaction |-> log_completion(ci, context_type, 0)]
         ELSE IF ~response.usage
              THEN [ret |-> ErrorColon \o MsgNoUsage,
                    current_interaction |-> log_completion(ci, context_type, 0)]
              ELSE [ret |-> response.content,
                    current_interaction |-> log_completion(ci, context_type, 0)]

\* get_completion for one response of the service.  Yields the returned value
\* and the collector's accumulator.
get_completion(m, ci, response, context_type) ==
    IF ~response.ok
    THEN [ret |-> ErrorColon \o response.cause, current_interaction |-> ci]
    ELSE IF m
         THEN IF ~response.usage
              THEN [ret |-> ErrorColon \o MsgNoUsage, current_interaction |-> ci]
              ELSE [ret |-> response.content,
                    current_interaction |-> log_completion(ci, context_type, 0)]
         ELSE [ret |-> response.content, current_interaction |-> ci]

\* the record of one get_completion call: its response and context type, the
\* value it returned, whether an accumulator was active, and the observations
\* it appended to the accumulator
called(ci, response, context_type, r) ==
    <<[response |-> response,
       context_type |-> context_type,
       ret |-> r.ret,
       active |-> ci # NoInteraction,
       appended |-> IF ci = NoInteraction THEN <<>>
                    ELSE SubSeq(r.current_interaction[1].completions,
                                Len(ci[1].completions) + 1,
                                Len(r.current_interaction[1].completions))]>>

\* the tuple without its placeholders
return_tuple_raw(init, refl, impr) == <<init, refl, impr>>

\* the tuple of agent.py:232-236
return_tuple(init, refl, impr) ==
    <<Or(init, MsgFailedInitial), Or(refl, MsgNoReflection), Or(impr, MsgNoImprovements)>>

\* the tuple of agent.py:240-244
except_tuple(init, refl, impr, e) ==
    <<Or(init, ErrorColon \o e), Or(refl, MsgReflectionFailed), Or(impr, MsgNoImproved)>>

\* the sentinel test as equality with "Error" instead of a prefix test
after_stage_exact(value, next) ==
    IF value = None THEN "except"
    ELSE IF value = ErrorSentinel THEN "finalize"
    ELSE next

\* refinement entered whatever the reflection stage returned
after_stage_refine_always(value, next) ==
    IF value = None THEN "except"
    ELSE IF StartsWith(value, ErrorSentinel) /\ next # "refinement" THEN "finalize"
    ELSE next

\* the next stage entered without a look at the sentinel
after_stage_ignore_error(value, next) ==
    IF value = None THEN "except" ELSE next

\* where a stage's value sends run_agent_with_reflection: calling startswith
\* on None raises, an "Error" prefix skips the remaining stages
after_stage(value, next) ==
    IF value = None THEN "except"
    ELSE IF StartsWith(value, ErrorSentinel) THEN "finalize"
    ELSE next

\* agent.py:193-200
RunStart ==
    /\ pc \in {"idle", "returned"}
    /\ runs < MaxRuns
    /\ \E q \in Queries : user_query' = q
    /\ runs' = runs + 1
    /\ initial_solution' = <<>>
    /\ reflection' = <<>>
    /\ improved_solution' = <<>>
    /\ raised' = NoException
    /\ result' = <<>>
    /\ calls' = <<>>
    /\ end_status' = "none"
    /\ memory_snippets' = <<>>
    /\ current_interaction' = IF metrics THEN start_interaction ELSE current_interaction
    /\ pc' = "initial"
    /\ starts' = IF metrics THEN starts + 1 ELSE starts
    /\ last_call' = NoCall
    /\ run_inputs' = NoInputs
    /\ UNCHANGED <<metrics, interactions, completions, ops, last_op, gathered,
                   logged>>

\* agent.py:204-205 with _get_initial_solution (112-131)
StageInitial ==
    /\ pc = "initial"
    /\ \E system_prompt \in SystemPrompts, files \in LayerFileChoices,
          response \in ServiceResponses :
         IF ~Truthy(system_prompt)
         THEN /\ raised' = MsgPromptNotFound
              /\ pc' = "except"
              /\ run_inputs' = [run_inputs EXCEPT !.system_prompt = system_prompt]
              /\ UNCHANGED <<current_interaction, initial_solution, calls, memory_snippets,
                             last_call>>
         ELSE LET g == gather_memory(metrics, current_interaction,
                                     layers_to_load(user_query), files)
                  r == get_completion(metrics, g.current_interaction, response,
                                      "initial_solution")
              IN /\ memory_snippets' = g.memory_content
                 /\ calls' = Append(calls, "initial_solution")
                 /\ run_inputs' = [system_prompt |-> system_prompt,
                                   responses |-> <<response>>]
                 /\ last_call' = called(g.current_interaction, response,
                                        "initial_solution", r)
                 /\ initial_solution' = r.ret
                 /\ current_interaction' = r.current_interaction
                 /\ pc' = after_stage(r.ret, "reflection")
                 /\ raised' = IF r.ret = None THEN MsgNoStartswith ELSE raised
    /\ UNCHANGED <<metrics, interactions, completions, user_query, reflection,
                   improved_solution, result, end_status, runs, ops, last_op, starts, gathered,
                   logged>>

\* agent.py:208-210 with _get_reflection (133-153)
StageReflection ==
    /\ pc = "reflection"
    /\ \E response \in ServiceResponses :
         LET r == get_completion(metrics, current_interaction, response, "reflection")
         IN /\ calls' = Append(calls, "reflection")
            /\ run_inputs' = [run_inputs EXCEPT !.responses = Append(@, response)]
            /\ last_call' = called(current_interaction, response, "reflection", r)
            /\ reflection' = r.ret
            /\ current_interaction' = r.current_interaction
            /\ pc' = after_stage(r.ret, "refinement")
            /\ raised' = IF r.ret = None THEN MsgNoStartswith ELSE raised
    /\ memory_snippets' = <<>>
    /\ UNCHANGED <<metrics, interactions, completions, user_query, initial_solution,
                   improved_solution, result, end_status, runs, ops, last_op, starts, gathered,
                   logged>>

\* agent.py:213-215 with refine_solution (155-181)
StageRefinement ==
    /\ pc = "refinement"
    /\ \E response \in ServiceResponses :
         LET r == get_completion(metrics, current_interaction, response, "refinement")
         IN /\ calls' = Append(calls, "refinement")
            /\ run_inputs' = [run_inputs EXCEPT !.responses = Append(@, response)]
            /\ last_call' = called(current_interaction, response, "refinement", r)
            /\ improved_solution' = r.ret
            /\ current_interaction' = r.current_interaction
    /\ pc' = "finalize"
    /\ UNCHANGED <<metrics, interactions, completions, user_query, initial_solution,
                   reflection, raised, result, end_status, memory_snippets, runs,
                   ops, last_op, starts, gathered,
                   logged>>

MsgDatabaseLocked == <<"d", "a", "t", "a", "b", "a", "s", "e", " ", "i", "s", " ", "l", "o", "c", "k", "e", "d">>

\* end_interaction called without its own try/except: a storage error reaches
\* the handler of agent.py:238
RunFinalizeUncaught ==
    /\ pc = "finalize"
    /\ IF metrics
       THEN \E fail \in 0..(Len(current_interaction[1].completions) + 2) :
              LET accessed_layers == current_interaction[1].layer_access
                  e == end_interaction(current_interaction, interactions, completions,
                                       user_query,
                                       Or(improved_solution, initial_solution),
                                       reflection, SetToList(accessed_layers), fail)
              IN /\ current_interaction' = e.current_interaction
                 /\ interactions' = e.interactions
                 /\ completions' = e.completions
                 /\ end_status' = IF e.raised THEN "failed" ELSE "ok"
                 /\ pc' = IF e.raised THEN "except" ELSE "return"
                 /\ raised' = IF e.raised THEN MsgDatabaseLocked ELSE raised
       ELSE /\ pc' = "return"
            /\ UNCHANGED <<current_interaction, interactions, completions, end_status,
                           raised>>
    /\ memory_snippets' = <<>>
    /\ UNCHANGED <<metrics, user_query, initial_solution, reflection, improved_solution,
                   result, calls, runs, ops, last_op, starts, last_call, gathered,
                   logged, run_inputs>>

\* agent.py:218-230: read the accessed layers, then end_interaction inside its
\* own try/except
RunFinalize ==
    /\ pc = "finalize"
    /\ IF metrics
       THEN \E fail \in 0..(Len(current_interaction[1].completions) + 2) :
              LET accessed_layers == current_interaction[1].layer_access
                  e == end_interaction(current_interaction, interactions, completions,
                                       user_query,
                                       Or(improved_solution, initial_solution),
                                       reflection, SetToList(accessed_layers), fail)
              IN /\ current_interaction' = e.current_interaction
                 /\ interactions' = e.interactions
                 /\ completions' = e.completions
                 /\ end_status' = IF e.raised THEN "failed" ELSE "ok"
       ELSE UNCHANGED <<current_interaction, interactions, completions, end_status>>
    /\ pc' = "return"
    /\ memory_snippets' = <<>>
    /\ UNCHANGED <<metrics, user_query, initial_solution, reflection, improved_solution,
                   raised, result, calls, runs, ops, last_op, starts, last_call, gathered,
                   logged, run_inputs>>

\* agent.py:232-236
RunReturn ==
    /\ pc = "return"
    /\ result' = return_tuple(initial_solution, reflection, improved_solution)
    /\ pc' = "returned"
    /\ UNCHANGED <<metrics, current_interaction, interactions, completions, user_query,
                   initial_solution, reflection, improved_solution, raised, calls,
                   end_status, memory_snippets, runs, ops, last_op, starts, last_call, gathered,
                   logged, run_inputs>>

\* agent.py:238-244
RunExcept ==
    /\ pc = "except"
    /\ result' = except_tuple(initial_solution, reflection, improved_solution, raised)
    /\ pc' = "returned"
    /\ memory_snippets' = <<>>
    /\ UNCHANGED <<metrics, current_interaction, interactions, completions, user_query,
                   initial_solution, reflection, improved_solution, raised, calls,
                   end_status, runs, ops, last_op, starts, last_call, gathered,
                   logged, run_inputs>>

\* a row and its completion left in the database file by an earlier process
OldInteraction ==
    [id |-> 1, session_id |-> OldSession, prompt |-> QuerySort, solution |-> TextCode,
     reflection |-> <<>>, total_tokens |-> count_tokens(QuerySort \o TextCode),
     layers_accessed |-> <<1, 2, 3>>]

OldCompletion == [interaction_id |-> 1, context_type |-> "initial_solution", duration |-> 0]

\* no direct log call yet
NoneLogged == [completions |-> <<>>, layer_access |-> {}, overwritten |-> {}]

\* no direct call yet
NoOp == [op |-> "none", active |-> FALSE, raised |-> FALSE, layers |-> <<>>, fail |-> 0]

\* CodingAgent.__init__ (agent.py:37-42) and MetricsCollector.__init__
\* (collector.py:10-17) over a database file that is new or was used before
Init ==
    /\ metrics \in BOOLEAN
    /\ current_interaction = NoInteraction
    /\ \/ interactions = <<>> /\ completions = <<>>
       \/ interactions = <<OldInteraction>> /\ completions = <<OldCompletion>>
    /\ pc = "idle"
    /\ user_query = <<>>
    /\ initial_solution = <<>>
    /\ reflection = <<>>
    /\ improved_solution = <<>>
    /\ raised = NoException
    /\ result = <<>>
    /\ calls = <<>>
    /\ end_status = "none"
    /\ memory_snippets = <<>>
    /\ runs = 0
    /\ ops = 0
    /\ last_op = NoOp
    /\ starts = 0
    /\ last_call = NoCall
    /\ gathered = NoGather
    /\ logged = NoneLogged
    /\ run_inputs = NoInputs

Next ==
    \/ RunStart
    \/ StageInitial
    \/ StageReflection
    \/ StageRefinement
    \/ RunFinalize
    \/ RunReturn
    \/ RunExcept

Spec == Init /\ [][Next]_vars

-----------------------------------------------------------------------------
\* The collector driven directly through its public methods, as a test or
\* another caller would, on a collector whose construction succeeded.

\* layer arguments, recognised and not
LayerArgs == {1, 7}

\* layers_accessed arguments of end_interaction
LayerListArgs == {<<>>, <<1, 3>>}

ContextTypes == {"initial_solution", "reflection", "refinement"}

\* (prompt, solution, reflection) arguments of end_interaction
EndTexts == {<<QuerySort, TextCode, <<>>>>, <<QueryLegacy, TextErrors, TextCode>>}

Called(op, active, failed, layers, fail) ==
    /\ ops' = ops + 1
    /\ last_op' = [op |-> op, active |-> active, raised |-> failed, layers |-> layers,
                   fail |-> fail]

\* collector.py:47-53
CallStartInteraction ==
    /\ ops < MaxOps
    /\ current_interaction' = start_interaction
    /\ Called("start_interaction", current_interaction # NoInteraction, FALSE, <<>>, 0)
    /\ starts' = starts + 1
    /\ logged' = [completions |-> <<>>, layer_access |-> {},
                  overwritten |-> logged.overwritten \cup
                      {logged.completions[i].duration : i \in 1..Len(logged.completions)}]
    /\ UNCHANGED <<metrics, interactions, completions, agent_vars>>

\* collector.py:55-58
CallLogLayerAccess ==
    /\ ops < MaxOps
    /\ \E layer \in LayerArgs :
         /\ current_interaction' = log_layer_access(current_interaction, layer)
         /\ logged' = [logged EXCEPT !.layer_access = @ \cup {layer}]
    /\ Called("log_layer_access", current_interaction # NoInteraction, FALSE, <<>>, 0)
    /\ UNCHANGED <<metrics, interactions, completions, agent_vars, starts>>

\* collector.py:60-68; the duration of the observation is the number of the call
CallLogCompletion ==
    /\ ops < MaxOps
    /\ \E context_type \in ContextTypes :
         /\ current_interaction' = log_completion(current_interaction, context_type, ops + 1)
         /\ logged' = [logged EXCEPT !.completions =
                           Append(@, [context_type |-> context_type, duration |-> ops + 1])]
    /\ Called("log_completion", current_interaction # NoInteraction, FALSE, <<>>, 0)
    /\ UNCHANGED <<metrics, interactions, completions, agent_vars, starts>>

\* collector.py:70-118
CallEndInteraction ==
    /\ ops < MaxOps
    /\ \E texts \in EndTexts, layers_accessed \in LayerListArgs,
          fail \in 0..(IF current_interaction = NoInteraction THEN 0
                       ELSE Len(current_interaction[1].completions) + 2) :
         LET e == end_interaction(current_interaction, interactions, completions,
                                  texts[1], texts[2], texts[3], layers_accessed, fail)
         IN /\ current_interaction' = e.current_interaction
            /\ interactions' = e.interactions
            /\ completions' = e.completions
            /\ Called("end_interaction", current_interaction # NoInteraction,
                      e.raised, layers_accessed, fail)
            /\ logged' = IF current_interaction # NoInteraction /\ ~e.raised
                         THEN [logged EXCEPT !.completions = <<>>, !.layer_access = {}]
                         ELSE logged
    /\ UNCHANGED <<metrics, agent_vars, starts>>

\* collector.py:124-159: a read of the store
CallGetSummary ==
    /\ ops < MaxOps
    /\ Called("get_summary", current_interaction # NoInteraction, FALSE, <<>>, 0)
    /\ UNCHANGED <<metrics, current_interaction, interactions, completions, agent_vars, starts,
                   logged>>

CollectorInit == Init /\ metrics

CollectorNext ==
    \/ CallStartInteraction
    \/ CallLogLayerAccess
    \/ CallLogCompletion
    \/ CallEndInteraction
    \/ CallGetSummary

CollectorSpec == CollectorInit /\ [][CollectorNext]_vars

-----------------------------------------------------------------------------
\* The context assembler on its own: the layer selection of
\* _get_initial_solution and gather_memory, called on an agent with or without
\* a collector, over more queries, id lists and file contents than a run uses.

QueryPrefixes == {<<>>, <<"a", " ">>}
QuerySuffixes == {<<>>, <<"!">>}
QueryMiddles ==
    {<<"s", "o", "r", "t">>,
     <<"l", "e", "g", "a", "c", "y">>,
     <<"L", "E", "G", "A", "C", "Y">>,
     <<"o", "l", "d", " ", "v", "e", "r", "s", "i", "o", "n">>,
     <<"o", "l", "d", " ", " ", "v", "e", "r", "s", "i", "o", "n">>,
     <<"d", "e", "p", "r", "e", "C", "A", "t", "e", "d">>,
     <<"d", "e", "p", "r", "e", "c", "a", "t", "e">>,
     <<"e", "d", "g", "e", " ", "c", "a", "s", "e">>,
     <<"E", "d", "g", "e", " ", "C", "a", "s", "e">>,
     <<"e", "d", "g", "e", "c", "a", "s", "e">>}

MemoryQueries ==
    {p \o m \o x : p \in QueryPrefixes, m \in QueryMiddles, x \in QuerySuffixes}

\* layers_needed arguments: none, unrecognised, out of order, repeated
LayerIdLists == {<<>>, <<7>>, <<3, 1>>, <<4, 0, 2, 4>>}

MemoryFileChoices == {{}, {1, 3}, {1, 2, 3, 4}}

LayerAccess(ci) == IF ci = NoInteraction THEN {} ELSE ci[1].layer_access

Gathered(stage1, layers_needed, files, g) ==
    /\ ops' = ops + 1
    /\ current_interaction' = g.current_interaction
    /\ memory_snippets' = g.memory_content
    /\ gathered' = <<[stage1 |-> stage1,
                      layers_needed |-> layers_needed,
                      files |-> files,
                      active |-> metrics /\ current_interaction # NoInteraction,
                      before |-> LayerAccess(current_interaction),
                      after |-> LayerAccess(g.current_interaction)]>>
    /\ UNCHANGED <<metrics, interactions, completions, pc, user_query, initial_solution,
                   reflection, improved_solution, raised, result, calls, end_status,
                   runs, last_op, starts, last_call, logged, run_inputs>>

\* agent.py:118-123
GatherForInitial ==
    /\ ops < MaxOps
    /\ \E files \in MemoryFileChoices :
         LET layers == layers_to_load(user_query)
         IN Gathered(TRUE, layers, files,
                     gather_memory(metrics, current_interaction, layers, files))

\* agent.py:56-76
CallGatherMemory ==
    /\ ops < MaxOps
    /\ \E layers_needed \in LayerIdLists, files \in MemoryFileChoices :
         Gathered(FALSE, layers_needed, files,
                  gather_memory(metrics, current_interaction, layers_needed, files))

\* collector.py:47-53, on an agent that has a collector
MemoryStartInteraction == metrics /\ CallStartInteraction

MemoryInit ==
    /\ metrics \in BOOLEAN
    /\ current_interaction = NoInteraction
    /\ interactions = <<>>
    /\ completions = <<>>
    /\ pc = "idle"
    /\ user_query \in MemoryQueries
    /\ initial_solution = <<>>
    /\ reflection = <<>>
    /\ improved_solution = <<>>
    /\ raised = NoException
    /\ result = <<>>
    /\ calls = <<>>
    /\ end_status = "none"
    /\ memory_snippets = <<>>
    /\ runs = 0
    /\ ops = 0
    /\ last_op = NoOp
    /\ starts = 0
    /\ last_call = NoCall
    /\ gathered = NoGather
    /\ logged = NoneLogged
    /\ run_inputs = NoInputs

MemoryNext ==
    \/ MemoryStartInteraction
    \/ GatherForInitial
    \/ CallGatherMemory

MemorySpec == MemoryInit /\ [][MemoryNext]_vars

-----------------------------------------------------------------------------
\* Properties of run_agent_with_reflection, checked under Spec.

\* C1: once stage 1 has returned a text beginning with "Error", the service has
\* been called exactly once in the run, with context type initial_solution:
\* neither reflection nor refinement is ever called.
C1_ErrorInitialStopsPipeline ==
    (calls # <<>> /\ StartsWith(initial_solution, ErrorSentinel))
        => calls = <<"initial_solution">>

C1_Witness ==
    /\ pc = "returned"
    /\ StartsWith(initial_solution, ErrorSentinel)
    /\ calls = <<"initial_solution">>

\* C2 as stated: when the reflection stage returned a text beginning with
\* "Error", refinement was not called and the first element of the returned
\* tuple is stage 1's text, unmodified.
C2_Original ==
    (pc = "returned" /\ StartsWith(reflection, ErrorSentinel))
        => /\ \A i \in 1..Len(calls) : calls[i] # "refinement"
           /\ result[1] = initial_solution

\* C2 as amended: when the reflection stage returned a text beginning with
\* "Error", refinement was not called, and the first element of the returned
\* tuple is stage 1's text when that text is not empty, and the sentinel
\* "Error: Failed to generate initial solution" when it is empty.
C2_ErrorReflectionKeepsInitial ==
    (pc = "returned" /\ StartsWith(reflection, ErrorSentinel))
        => /\ calls = <<"initial_solution", "reflection">>
           /\ result[1] = IF initial_solution = <<>> THEN MsgFailedInitial
                          ELSE initial_solution

C2_Witness ==
    /\ pc = "returned"
    /\ StartsWith(reflection, ErrorSentinel)
    /\ initial_solution = TextCode
    /\ result[1] = TextCode

\* C3: every returned value is a 3-tuple whose elements are all text (not None)
\* and not empty, on the normal path and on the exception path, with or without
\* a collector.
C3_ResultNonEmpty ==
    pc = "returned"
        => /\ Len(result) = 3
           /\ \A i \in 1..3 : result[i] # None /\ result[i] # <<>>

C3_Witness ==
    /\ pc = "returned"
    /\ calls = <<"initial_solution", "reflection", "refinement">>
    /\ initial_solution = <<>>
    /\ improved_solution = <<>>
    /\ result[3] = MsgNoImprovements

\* C4 as stated: when a run of an agent with a collector has returned,
\* end_interaction was called in the run and no accumulator is active.
C4_Claim ==
    (pc = "returned" /\ metrics)
        => /\ end_status # "none"
           /\ current_interaction = NoInteraction

\* C5: when end_interaction failed in a run, the failure did not reach the outer
\* handler and the returned tuple is the one of the normal path for the run's
\* stage outcomes: each stage's text, or its placeholder when the text is empty.
C5_MetricsFailureKeepsResult ==
    (pc = "returned" /\ end_status = "failed")
        => /\ raised = NoException
           /\ result = <<Or(initial_solution, MsgFailedInitial),
                         Or(reflection, MsgNoReflection),
                         Or(improved_solution, MsgNoImprovements)>>

C5_Witness ==
    /\ pc = "returned"
    /\ end_status = "failed"
    /\ Len(calls) = 2
    /\ result[3] = MsgNoImprovements

\* C10 as stated: when the system prompt is missing, no generation call is made
\* and the first element of what the caller receives is not an "Error"-prefixed
\* sentinel.
C10_Claim ==
    (pc = "returned" /\ raised = MsgPromptNotFound)
        => /\ calls = <<>>
           /\ ~StartsWith(result[1], ErrorSentinel)

\* C11 as stated, read in the way most favourable to the code: every call
\* returns text; a call the service failed returns text beginning with "Error"
\* and appends no observation; a call the service answered either has that
\* failure outcome or returns the content of the response and appends exactly
\* one observation of its context type to the active accumulator, if any.
C11_Claim ==
    last_call # NoCall
        => LET c == last_call[1]
               failure == StartsWith(c.ret, ErrorSentinel) /\ c.appended = <<>>
               success ==
                   /\ c.ret = c.response.content
                   /\ c.appended = IF c.active
                                   THEN <<[context_type |-> c.context_type, duration |-> 0]>>
                                   ELSE <<>>
           IN /\ c.ret # None
              /\ ~c.response.ok => failure
              /\ c.response.ok => (failure \/ success)

\* the completion rows of the interaction row written last
LastCompletions ==
    LET id == interactions[Len(interactions)].id
        OfLast(c) == c.interaction_id = id
    IN SelectSeq(completions, OfLast)

\* C12 as stated: the solution of the interaction row a run has written is the
\* refinement stage's text when the service answered that stage with text, and
\* the initial stage's text otherwise (refinement skipped or failed).
C12_Claim ==
    (pc = "return" /\ end_status = "ok")
        => LET c == last_call[1]
               refined == /\ c.context_type = "refinement"
                          /\ c.response.ok
                          /\ c.response.usage
                          /\ Truthy(improved_solution)
           IN interactions[Len(interactions)].solution =
                  IF refined THEN improved_solution ELSE initial_solution

\* C13 as stated: in the returned tuple the reflection field is the placeholder
\* "No reflection analysis available" exactly when the reflection stage was not
\* called, and the refinement field is the placeholder "No improvements made"
\* exactly when the refinement stage was not called.
C13_Claim ==
    pc = "returned"
        => /\ (result[2] = MsgNoReflection)
                  <=> (\A i \in 1..Len(calls) : calls[i] # "reflection")
           /\ (result[3] = MsgNoImprovements)
                  <=> (\A i \in 1..Len(calls) : calls[i] # "refinement")

StageOrder == <<"initial_solution", "reflection", "refinement">>

\* C16: the completion rows of an interaction row written by a run are at most
\* three and are, in stage order and without repetition, one row for each
\* call of the run that the service answered with its token counts.  (Every
\* call before the last of a run was answered: the run went on after it.)
C16_CompletionRowsFollowStages ==
    (pc = "return" /\ end_status = "ok")
        => LET rows == LastCompletions
               types == [i \in 1..Len(rows) |-> rows[i].context_type]
               answered == last_call[1].response.ok /\ last_call[1].response.usage
               expected == IF answered THEN calls ELSE SubSeq(calls, 1, Len(calls) - 1)
           IN /\ Len(rows) <= 3
              /\ types = SubSeq(StageOrder, 1, Len(rows))
              /\ types = expected

C16_Witness ==
    /\ pc = "return"
    /\ end_status = "ok"
    /\ Len(calls) = 3
    /\ ~last_call[1].response.ok
    /\ Len(LastCompletions) = 2

\* C20: the calls of a run are a prefix of initial_solution, reflection,
\* refinement, so at most three, each stage at most once and in order; the
\* reflection stage is called only after the initial stage returned text that
\* does not begin with "Error", and the refinement stage only after the
\* reflection stage did.
C20_StagesInOrderWithoutRetry ==
    /\ Len(calls) <= 3
    /\ calls = SubSeq(StageOrder, 1, Len(calls))
    /\ Len(calls) >= 2 =>
           initial_solution # None /\ ~StartsWith(initial_solution, ErrorSentinel)
    /\ Len(calls) >= 3 =>
           reflection # None /\ ~StartsWith(reflection, ErrorSentinel)

C20_Witness ==
    /\ pc = "returned"
    /\ calls = <<"initial_solution", "reflection">>
    /\ ~last_call[1].response.ok
    /\ StartsWith(reflection, ErrorSentinel)

-----------------------------------------------------------------------------
\* Properties of MetricsCollector, checked under CollectorSpec.

NoOrphanCompletion ==
    \A j \in 1..Len(completions) :
        \E i \in 1..Len(interactions) : interactions[i].id = completions[j].interaction_id

\* one end_interaction with an active accumulator either leaves both tables as
\* they were, or adds one interaction row and one completion row per queued
\* observation, in order, all referring to the new row
AllOrNothing ==
    (ops' = ops + 1 /\ last_op'.op = "end_interaction" /\ current_interaction # NoInteraction)
        => LET queued == current_interaction[1].completions
               ni == Len(interactions)
               nc == Len(completions)
           IN \/ interactions' = interactions /\ completions' = completions
              \/ /\ Len(interactions') = ni + 1
                 /\ SubSeq(interactions', 1, ni) = interactions
                 /\ \A i \in 1..ni : interactions[i].id # interactions'[ni + 1].id
                 /\ Len(completions') = nc + Len(queued)
                 /\ SubSeq(completions', 1, nc) = completions
                 /\ \A k \in 1..Len(queued) :
                      /\ completions'[nc + k].interaction_id = interactions'[ni + 1].id
                      /\ completions'[nc + k].context_type = queued[k].context_type
                      /\ completions'[nc + k].duration = queued[k].duration

\* C6: no completion row refers to an interaction id that has no row, and every
\* end_interaction, failing at any point or not, writes the interaction row
\* together with all its queued completion rows or writes nothing.
C6_FinalizeAtomic == []NoOrphanCompletion /\ [][AllOrNothing]_vars

C6_Witness ==
    /\ last_op.op = "end_interaction"
    /\ last_op.active
    /\ last_op.raised
    /\ last_op.fail = 1
    /\ current_interaction # NoInteraction
    /\ Len(current_interaction[1].completions) >= 2

\* C7 as stated: after an end_interaction that failed with a storage error no
\* accumulator is active.
C7_Claim ==
    (last_op.op = "end_interaction" /\ last_op.raised)
        => current_interaction = NoInteraction

\* C8: a log_layer_access, log_completion or end_interaction made with no active
\* accumulator does not raise and leaves the accumulator slot and both tables
\* as they were, so nothing of the call can reach a later row.
C8_NoOpWithoutAccumulator ==
    [][(/\ ops' = ops + 1
        /\ last_op'.op \in {"log_layer_access", "log_completion", "end_interaction"}
        /\ current_interaction = NoInteraction)
           => /\ ~last_op'.raised
              /\ current_interaction' = NoInteraction
              /\ interactions' = interactions
              /\ completions' = completions]_vars

C8_Witness ==
    /\ last_op.op = "log_completion"
    /\ ~last_op.active
    /\ current_interaction = NoInteraction
    /\ \E i \in 1..Len(interactions) : interactions[i].session_id = ThisSession

\* C9 as stated: after a successful end_interaction of an active accumulator,
\* get_summary counts the interaction and recent_layer_patterns contains the
\* layer ids that were passed to that end_interaction.
C9_Claim ==
    (last_op.op = "end_interaction" /\ last_op.active /\ ~last_op.raised)
        => LET summary == get_summary(interactions)
           IN /\ summary.interaction_count >= 1
              /\ \E i \in 1..Len(summary.recent_layer_patterns) :
                   ListToSet(summary.recent_layer_patterns[i]) = ListToSet(last_op.layers)


SessionRows == {i \in 1..Len(interactions) : interactions[i].session_id = ThisSession}

\* C14: the session never has more interaction rows than start_interaction
\* calls were made, an accumulator that is still active counting as one row to
\* come; only end_interaction changes the tables; and an end_interaction that
\* follows a successful end_interaction writes nothing.
C14_PersistedAtMostOnce ==
    /\ [](Cardinality(SessionRows)
              + (IF current_interaction # NoInteraction THEN 1 ELSE 0) <= starts)
    /\ [][/\ (interactions' # interactions \/ completions' # completions)
                 => (ops' = ops + 1 /\ last_op'.op = "end_interaction")
          /\ (/\ last_op.op = "end_interaction" /\ last_op.active /\ ~last_op.raised
              /\ ops' = ops + 1 /\ last_op'.op = "end_interaction")
                 => (interactions' = interactions /\ completions' = completions)]_vars

C14_Witness ==
    /\ last_op.op = "end_interaction"
    /\ ~last_op.active
    /\ starts = 1
    /\ Cardinality(SessionRows) = 1
    /\ ops = 3

\* C15 as stated: the layer set of the active accumulator and the
\* layers_accessed of every interaction row are subsets of the layer domain
\* {1, 2, 3, 4}.
C15_Claim ==
    /\ current_interaction # NoInteraction
           => current_interaction[1].layer_access \subseteq layer_files
    /\ \A i \in 1..Len(interactions) :
           ListToSet(interactions[i].layers_accessed) \subseteq layer_files

\* C19 as stated: get_summary of a session without interaction rows returns
\* interaction_count 0, an average of zero and no layer pattern.
C19_Original ==
    (last_op.op = "get_summary" /\ SessionRows = {})
        => LET summary == get_summary(interactions)
           IN /\ summary.interaction_count = 0
              /\ ~summary.avg_tokens.null /\ summary.avg_tokens.sum = 0
              /\ summary.recent_layer_patterns = <<>>

\* C19 as amended: get_summary of a session without interaction rows, whatever
\* rows other sessions left in the store, returns interaction_count 0, no
\* average (NULL, Python None) and no layer pattern.
C19_SummaryOfEmptySession ==
    (last_op.op = "get_summary" /\ SessionRows = {})
        => LET summary == get_summary(interactions)
           IN /\ summary.interaction_count = 0
              /\ summary.avg_tokens.null
              /\ summary.recent_layer_patterns = <<>>

C19_Witness ==
    /\ last_op.op = "get_summary"
    /\ interactions = <<OldInteraction>>
    /\ current_interaction # NoInteraction
    /\ ops >= 3


-----------------------------------------------------------------------------
\* Properties of the context assembler, checked under MemorySpec.

\* the middles of the queries that hold a trigger substring in some casing
TriggerMiddles ==
    {<<"l", "e", "g", "a", "c", "y">>,
     <<"L", "E", "G", "A", "C", "Y">>,
     <<"o", "l", "d", " ", "v", "e", "r", "s", "i", "o", "n">>,
     <<"d", "e", "p", "r", "e", "C", "A", "t", "e", "d">>,
     <<"e", "d", "g", "e", " ", "c", "a", "s", "e">>,
     <<"E", "d", "g", "e", " ", "C", "a", "s", "e">>}

\* C17: the layers requested for stage 1 are {1, 2, 3, 4} when the query holds
\* one of the triggers 'legacy', 'old version', 'deprecated', 'edge case' in any
\* casing, and exactly {1, 2, 3} otherwise (a trigger cut short, run together
\* or spaced out is none).
C17_LayerFourOnTrigger ==
    \A p \in QueryPrefixes, m \in QueryMiddles, x \in QuerySuffixes :
        (gathered # NoGather /\ gathered[1].stage1 /\ user_query = p \o m \o x)
            => ListToSet(gathered[1].layers_needed) =
                   IF m \in TriggerMiddles THEN {1, 2, 3, 4} ELSE {1, 2, 3}

C17_Witness ==
    /\ gathered # NoGather
    /\ gathered[1].stage1
    /\ user_query = <<"a", " ", "E", "d", "g", "e", " ", "C", "a", "s", "e", "!">>
    /\ gathered[1].layers_needed = <<1, 2, 3, 4>>

\* the requested ids that are keys of layer_files
Recognized(g) == ListToSet(g.layers_needed) \cap {1, 2, 3, 4}

\* C18 as stated: after gather_memory on a fresh accumulator, the accumulator's
\* layer set is the set of requested recognized ids whose file had content.
C18_Original ==
    (gathered # NoGather /\ gathered[1].active /\ gathered[1].before = {})
        => gathered[1].after = Recognized(gathered[1]) \cap gathered[1].files

\* C18 as amended: gather_memory adds to the accumulator's layer set exactly the
\* requested recognized ids, whether or not their file had content, and nothing
\* without an active accumulator; the text it returns has a block for exactly
\* the requested recognized ids whose file had content.
C18_AccessedAreRequested ==
    gathered # NoGather
        => LET g == gathered[1]
           IN /\ g.after = IF g.active THEN g.before \cup Recognized(g) ELSE {}
              /\ ListToSet(memory_snippets) = Recognized(g) \cap g.files

C18_Witness ==
    /\ gathered # NoGather
    /\ gathered[1].active
    /\ gathered[1].layers_needed = <<4, 0, 2, 4>>
    /\ gathered[1].files = {1, 3}
    /\ gathered[1].before = {}
    /\ gathered[1].after = {2, 4}
    /\ memory_snippets = <<>>


-----------------------------------------------------------------------------
\* Properties of start_interaction over an accumulator that is still active,
\* checked under CollectorSpec.

\* the completion rows of the interaction row with the given id
CompletionsOf(comps, interaction_id) ==
    SelectSeq(comps, LAMBDA c : c.interaction_id = interaction_id)

Observation(c) == [context_type |-> c.context_type, duration |-> c.duration]

\* C21: no log_completion call that a start_interaction call overwrote is ever
\* among the completion rows, and a step that writes an interaction row writes
\* exactly the log_completion calls and the layer ids logged since the most
\* recent start_interaction call, none of an earlier interaction.
C21_StartDiscardsUnfinished ==
    /\ [](\A i \in 1..Len(completions) :
             completions[i].duration \notin logged.overwritten)
    /\ [][Len(interactions') > Len(interactions)
            => LET row == interactions'[Len(interactions')]
                   rows == CompletionsOf(completions', row.id)
               IN /\ Len(interactions') = Len(interactions) + 1
                  /\ ListToSet(row.layers_accessed) = logged.layer_access
                  /\ [i \in 1..Len(rows) |-> Observation(rows[i])] = logged.completions]_vars

\* start_interaction overwrote an accumulator holding a completion, and the
\* interaction started by it was then written with the layer logged after it
C21_Witness ==
    /\ last_op.op = "end_interaction"
    /\ last_op.active
    /\ ~last_op.raised
    /\ starts >= 2
    /\ logged.overwritten # {}
    /\ Len(interactions) >= 1
    /\ interactions[Len(interactions)].layers_accessed = <<7>>
    /\ CompletionsOf(completions, interactions[Len(interactions)].id) = <<>>


-----------------------------------------------------------------------------
\* The run with and without a collector, checked under Spec.

\* run_agent_with_reflection (agent.py:198-244) of an agent whose metrics is
\* None, for a system prompt file and the responses the service gives to the
\* first, second and third call: the returned tuple and the calls made
RunWithoutCollector(system_prompt, rs) ==
    IF ~Truthy(system_prompt)
    THEN [result |-> except_tuple(<<>>, <<>>, <<>>, MsgPromptNotFound), calls |-> <<>>]
    ELSE LET init == get_completion(FALSE, NoInteraction, rs[1], "initial_solution").ret
             refl == get_completion(FALSE, NoInteraction, rs[2], "reflection").ret
             impr == get_completion(FALSE, NoInteraction, rs[3], "refinement").ret
             after_init == after_stage(init, "reflection")
             after_refl == after_stage(refl, "refinement")
         IN IF after_init = "except"
            THEN [result |-> except_tuple(init, <<>>, <<>>, MsgNoStartswith),
                  calls |-> <<"initial_solution">>]
            ELSE IF after_init = "finalize"
            THEN [result |-> return_tuple(init, <<>>, <<>>),
                  calls |-> <<"initial_solution">>]
            ELSE IF after_refl = "except"
            THEN [result |-> except_tuple(init, refl, <<>>, MsgNoStartswith),
                  calls |-> <<"initial_solution", "reflection">>]
            ELSE IF after_refl = "finalize"
            THEN [result |-> return_tuple(init, refl, <<>>),
                  calls |-> <<"initial_solution", "reflection">>]
            ELSE [result |-> return_tuple(init, refl, impr),
                  calls |-> <<"initial_solution", "reflection", "refinement">>]

\* the sequences of three responses of the service that begin with the given ones
ResponsesFrom(read) ==
    {rs \in [1..3 -> ServiceResponses] : \A i \in 1..Len(read) : rs[i] = read[i]}

\* C22 as stated: when a run of an agent with a collector has returned, its
\* tuple and its calls are those of the run of an agent without a collector
\* for the same system prompt file and the same responses of the service.
C22_Claim ==
    (pc = "returned" /\ metrics)
        => \A rs \in ResponsesFrom(run_inputs.responses) :
               LET without == RunWithoutCollector(run_inputs.system_prompt, rs)
               IN /\ result = without.result
                  /\ calls = without.calls

\* the run without a collector as the model's steps take it
C22_WithoutCollectorAgrees ==
    (pc = "returned" /\ ~metrics)
        => \A rs \in ResponsesFrom(run_inputs.responses) :
               LET without == RunWithoutCollector(run_inputs.system_prompt, rs)
               IN /\ result = without.result
                  /\ calls = without.calls

====
